---- MODULE Spec2Model ----
(***************************************************************************)
(* Model of the counter table application (src/mainwindow.h,               *)
(* src/mainwindow.cpp): the mutex-guarded CounterManager, the worker       *)
(* thread that increments every counter, the window's life cycle, the      *)
(* rate estimator (updateFrequency) and the load and the save of the       *)
(* counters in counters.db.                                                *)
(*                                                                         *)
(* Two threads exist: "ui" (the Qt event loop, which runs the constructor, *)
(* the slots and the destructor of MainWindow) and "worker" (the lambda    *)
(* started by the constructor).  A call of a CounterManager method is      *)
(* modelled in steps: the caller waits for the mutex ("lock"), executes    *)
(* the body while holding it ("body") and releases it on return.           *)
(* incrementAll's loop takes one step per element.                         *)
(*                                                                         *)
(* Specifications: SpecStore (CounterManager under any caller), Spec (the  *)
(* window with its table; FairSpec and LiveSpec add fairness), SpecRate    *)
(* and SpecSum (the rate estimator), SpecSave (the save button, run after  *)
(* run).                                                                   *)
(***************************************************************************)
EXTENDS Integers, Sequences, FiniteSets, TLC

\* ------------------------------------------------------------------ bounds
\* Longest collection the model builds.
MaxLen == 3
\* incrementAll calls the worker makes in one behaviour.
MaxTicks == 3
\* Milliseconds the clock advances in one behaviour.
MaxTime == 2
\* onSaveClicked calls that write to the database in one behaviour.
MaxSaves == 1

\* Largest value of the C++ type int (the element type of counters_).
INT_MAX == 2147483647
INT_MIN == (-INT_MAX) - 1

Threads == {"ui", "worker"}

\* Values a caller of the public addCounter passes.
AddValues == {0}
\* Indexes a caller of the public deleteCounter passes.
DeleteIndexes == (-1) .. MaxLen
\* Vectors a caller of the public setCounters passes.
SetArgs == {<<>>, <<4>>, <<3, 1, 2>>}

VARIABLES
    counters_,    \* CounterManager::counters_
    mutex_,       \* CounterManager::mutex_: "free" or the thread that owns it
    keepRunning,  \* MainWindow::keepRunning
    storeAlive,   \* the lifetime of MainWindow::counterManager has not ended
    fault,        \* an operation executed undefined behaviour or raised an error
    pc,           \* the position of each thread
    call,         \* the CounterManager call each thread is in, with its argument
    idx,          \* incrementAll's loop position (elements already incremented)
    local,        \* the ui thread's local std::vector<int> (a result or an argument)
    shared,       \* local shares its storage with counters_
    modified,     \* the caller has written to local since it was bound
    handler,      \* the MainWindow member function the ui thread executes
    tableRows,    \* tableWidget->rowCount()
    selectedRow,  \* the selected row of tableWidget, -1 when none is
    dbRows,       \* the rows of table counters in counters.db
    errorShown,   \* a QMessageBox::critical was shown
    now,          \* the clock QElapsedTimer reads, in milliseconds
    timerValid,   \* MainWindow::elapsedTimer.isValid()
    timerStart,   \* the clock value at which elapsedTimer was last started
    previousSum,  \* MainWindow::previousSum
    rate,         \* the frequency last passed to freqLabel->setText
    tickKind,     \* what the last updateFrequency did
    dbOpen,       \* the default database connection is open
    inTx,         \* a transaction is active on the connection
    txRows,       \* the rows of table counters as the active transaction sees them
    saveIdx,      \* onSaveClicked's loop position (values already bound)
    saveStage,    \* how far the last onSaveClicked has come
    saveOld,      \* dbRows when the last onSaveClicked began
    saveNew,      \* the vector the last onSaveClicked read from the store
    saveFailed,   \* a statement of the last onSaveClicked failed
    saves,        \* onSaveClicked calls that have begun to write
    savedOk,      \* the vector the last onSaveClicked stored without a failure
    \* history variables, read only by the properties
    lin,          \* the collection of a store that executes each call atomically
    window,       \* values lin had while the current getCounters call was open
    base,         \* the collection after the last mutation that is not a tick
    nTicks,       \* ticks completed since base was recorded
    ticks,        \* incrementAll calls the worker has begun
    snap,         \* what held when the current snapshot was copied
    prev,         \* the call the ui thread completed before the current one
    ticksAfterStop \* incrementAll calls that began to execute with keepRunning false

\* The rate estimator's state.
rateVars == <<now, timerValid, timerStart, previousSum, rate, tickKind>>

\* The database connection and what onSaveClicked did to it.
sqlKept == <<inTx, txRows, saveIdx, saveStage, saveOld, saveNew, saveFailed,
             saves, savedOk>>
sqlVars == <<dbOpen, sqlKept>>

\* The window's own state.
dataVars == <<dbRows, errorShown, rateVars, sqlVars>>
winVars == <<handler, tableRows, selectedRow, dataVars>>

vars == <<counters_, mutex_, keepRunning, storeAlive, fault, pc, call, idx,
          local, shared, modified, winVars, lin, window, base, nTicks, ticks,
          snap, prev, ticksAfterStop>>

\* A call of a CounterManager method: the method, its int or vector argument,
\* whether the vector argument is one the caller keeps, and what the call did.
Call(op, n, vec, bound) ==
    [op |-> op, n |-> n, vec |-> vec, bound |-> bound, out |-> ""]
NoCall == Call("none", 0, <<>>, FALSE)

\* No frequency has been shown (den = 0), and no save has succeeded.
NoRate == [num |-> 0, den |-> 0]
NoSave == [done |-> FALSE, x |-> <<>>]

NoSnap == [overlap |-> FALSE, inc |-> 0, len |-> 0, ticks |-> 0]

\* ------------------------------------------------- CounterManager, helpers

\* std::lock_guard<std::mutex> lock(mutex_): the constructor returns only
\* when no thread owns the mutex.  (CanLockAlways: a lock that excludes
\* nobody, the faulty variant the exclusion properties are tested against.)
CanLockAlways(t) == TRUE
CanLock(t) == mutex_ = "free"

\* if (index >= 0 && index < static_cast<int>(counters_.size()))
\* (InRangeInclusive: the faulty variant with <= for <.)
InRangeInclusive(index, size) == index >= 0 /\ index <= size
InRange(index, size) == index >= 0 /\ index < size

\* counters_.erase(counters_.begin() + index), index counted from 0.
\* (EraseLast: the faulty variant that removes the last element.)
EraseLast(s, index) == SubSeq(s, 1, Len(s) - 1)
EraseAt(s, index) ==
    [j \in 1 .. (Len(s) - 1) |-> IF j <= index THEN s[j] ELSE s[j + 1]]

\* What erase leaves behind: for a position that is not an element the
\* behaviour is undefined, and the call may leave the vector as it was or
\* shorter by one, and may crash.
EraseOutcomes(s, index) ==
    IF index >= 0 /\ index < Len(s)
    THEN {[val |-> EraseAt(s, index), fault |-> FALSE]}
    ELSE {[val |-> s, fault |-> TRUE]}
         \cup (IF Len(s) > 0
               THEN {[val |-> SubSeq(s, 1, Len(s) - 1), fault |-> TRUE]}
               ELSE {})

\* ++counter on an int: signed overflow is undefined; the build wraps or traps.
IncOutcomes(v) ==
    IF v = INT_MAX
    THEN {[val |-> INT_MIN, fault |-> FALSE], [val |-> v, fault |-> TRUE]}
    ELSE {[val |-> v + 1, fault |-> FALSE]}

\* for (auto& counter : counters_): the loop goes on while elements remain.
\* (LoopContinuesSkipLast: the faulty variant that stops one element early.)
LoopContinuesSkipLast(i, n) == i < n - 1
LoopContinues(i, n) == i < n

\* return counters_; in a function returning std::vector<int> by value: the
\* caller's vector is a copy with storage of its own.  (GetCountersReturnRef:
\* the faulty variant that returns a reference to counters_.)
GetCountersReturnRef == [val |-> counters_, shared |-> TRUE]
GetCountersReturn == [val |-> counters_, shared |-> FALSE]

\* counters_ = counters; copy assignment: the old elements are discarded.
\* (SetCountersAppend: the faulty variant that keeps them.)
SetCountersAppend(cur, arg) == cur \o arg
SetCountersAssign(cur, arg) == arg

\* The ui thread's vector as the ui thread reads it.
LocalView == IF shared THEN counters_ ELSE local

\* Where a thread continues when its call returns.
RetPc(t) == IF t = "worker" THEN "sleep" ELSE "ret"

\* ------------------------------------ the atomic store (history variables)

SeqIncAll(s) == [j \in 1 .. Len(s) |-> s[j] + 1]
SeqShift(s, k) == [j \in 1 .. Len(s) |-> s[j] + k]
SeqErase(s, index) ==
    IF index >= 0 /\ index < Len(s)
    THEN SubSeq(s, 1, index) \o SubSeq(s, index + 2, Len(s))
    ELSE s

\* The sum of the elements, for the properties.
RECURSIVE SeqSum(_)
SeqSum(s) == IF s = <<>> THEN 0 ELSE Head(s) + SeqSum(Tail(s))

GetOpen == call["ui"].op = "get" /\ pc["ui"] \in {"lock", "body"}
WindowWith(newLin) == IF GetOpen THEN window \cup {newLin} ELSE window

InTick(t) == call[t].op = "inc" /\ pc[t] \in {"lock", "body"}

\* ------------------------------------------------ CounterManager, actions

histVars == <<lin, window, base, nTicks>>

\* What no method of CounterManager touches.
outer == <<keepRunning, storeAlive, winVars>>

\* The lock_guard constructor of any of the five methods.
Lock(t) ==
    /\ pc[t] = "lock"
    /\ CanLock(t)
    /\ mutex_' = t
    /\ pc' = [pc EXCEPT ![t] = "body"]
    /\ idx' = [idx EXCEPT ![t] = 0]
    /\ ticksAfterStop' = IF call[t].op = "inc" /\ ~keepRunning
                         THEN ticksAfterStop + 1 ELSE ticksAfterStop
    /\ UNCHANGED <<counters_, outer, fault, call, local,
                   shared, modified, histVars, ticks, snap, prev>>

\* ~lock_guard: the mutex is unlocked when the method returns.
\* (UnlockedNever: the faulty variant that returns with the mutex locked.)
UnlockedNever(t) == t
Unlocked(t) == "free"

\* The body of a method has run: the lock_guard destructor releases the
\* mutex and the call returns.  The call's record keeps what the call did.
Return(t, outcome) ==
    /\ mutex_' = Unlocked(t)
    /\ pc' = [pc EXCEPT ![t] = RetPc(t)]
    /\ call' = [call EXCEPT ![t].n = 0, ![t].out = outcome]

\* CounterManager::addCounter: counters_.push_back(value).
AddBody(t) ==
    /\ pc[t] = "body" /\ call[t].op = "add"
    /\ counters_' = Append(counters_, call[t].n)
    /\ Return(t, "ok")
    /\ lin' = Append(lin, call[t].n)
    /\ window' = WindowWith(lin')
    /\ base' = counters_'
    /\ nTicks' = 0
    /\ UNCHANGED <<outer, fault, idx, local, shared,
                   modified, ticks, snap, prev, ticksAfterStop>>

\* CounterManager::deleteCounter: the bounds check, then erase.
DeleteBody(t) ==
    /\ pc[t] = "body" /\ call[t].op = "delete"
    /\ IF InRange(call[t].n, Len(counters_))
       THEN \E r \in EraseOutcomes(counters_, call[t].n) :
                /\ counters_' = r.val
                /\ fault' = (fault \/ r.fault)
       ELSE UNCHANGED <<counters_, fault>>
    /\ Return(t, IF InRange(call[t].n, Len(counters_))
                 THEN "erased" ELSE "ignored")
    /\ lin' = SeqErase(lin, call[t].n)
    /\ window' = WindowWith(lin')
    /\ base' = counters_'
    /\ nTicks' = 0
    /\ UNCHANGED <<outer, idx, local, shared,
                   modified, ticks, snap, prev, ticksAfterStop>>

\* CounterManager::getCounters: the copy is made while the mutex is held.
GetBody(t) ==
    /\ pc[t] = "body" /\ call[t].op = "get"
    /\ local' = GetCountersReturn.val
    /\ shared' = GetCountersReturn.shared
    /\ modified' = FALSE
    /\ Return(t, "ok")
    /\ snap' = [snap EXCEPT
                  !.inc = IF call["worker"].op = "inc" /\ pc["worker"] = "body"
                          THEN idx["worker"] ELSE 0,
                  !.len = Len(counters_),
                  !.ticks = nTicks]
    /\ UNCHANGED <<counters_, outer, fault, idx,
                   histVars, ticks, prev, ticksAfterStop>>

\* CounterManager::setCounters: counters_ = counters.
SetBody(t) ==
    /\ pc[t] = "body" /\ call[t].op = "set"
    /\ counters_' = SetCountersAssign(counters_, call[t].vec)
    /\ shared' = IF call[t].bound THEN FALSE ELSE shared
    /\ Return(t, "ok")
    /\ lin' = call[t].vec
    /\ window' = WindowWith(lin')
    /\ base' = counters_'
    /\ nTicks' = 0
    /\ UNCHANGED <<outer, fault, idx, local,
                   modified, ticks, snap, prev, ticksAfterStop>>

\* CounterManager::incrementAll: one iteration of the loop, ++counter.
IncStep(t) ==
    /\ pc[t] = "body" /\ call[t].op = "inc"
    /\ LoopContinues(idx[t], Len(counters_))
    /\ idx[t] < Len(counters_)
    /\ \E r \in IncOutcomes(counters_[idx[t] + 1]) :
           /\ counters_' = [counters_ EXCEPT ![idx[t] + 1] = r.val]
           /\ fault' = (fault \/ r.fault)
    /\ idx' = [idx EXCEPT ![t] = @ + 1]
    /\ UNCHANGED <<mutex_, outer, pc, call, local, shared,
                   modified, histVars, ticks, snap, prev, ticksAfterStop>>

\* CounterManager::incrementAll: the loop has ended.
IncDone(t) ==
    /\ pc[t] = "body" /\ call[t].op = "inc"
    /\ ~LoopContinues(idx[t], Len(counters_))
    /\ Return(t, "ok")
    /\ lin' = SeqIncAll(lin)
    /\ window' = WindowWith(lin')
    /\ nTicks' = nTicks + 1
    /\ UNCHANGED <<counters_, outer, fault, idx, local, shared, modified,
                   base, ticks, snap, prev, ticksAfterStop>>

\* The steps of the ui thread's calls of setCounters and getCounters.
UiCopyStep ==
    \/ Lock("ui")
    \/ GetBody("ui")
    \/ SetBody("ui")

\* The steps of the calls the ui thread makes.
UiStoreStep ==
    \/ UiCopyStep
    \/ AddBody("ui")
    \/ DeleteBody("ui")

\* The steps of the call the worker makes.
WorkerStoreStep ==
    \/ Lock("worker")
    \/ IncStep("worker")
    \/ IncDone("worker")

\* ------------------------------------------------------ the worker thread

\* while (keepRunning.load())
\* (LoopConditionIgnoresFlag: the faulty variant while (true).)
LoopConditionIgnoresFlag == TRUE
LoopCondition == keepRunning

\* The worker lambda: the loop test, then the call of incrementAll.
WorkerTest ==
    /\ pc["worker"] = "test"
    /\ IF LoopCondition
       THEN /\ ticks < MaxTicks
            /\ pc' = [pc EXCEPT !["worker"] = "lock"]
            /\ call' = [call EXCEPT !["worker"] =
                          Call("inc", 0, <<>>, FALSE)]
            /\ ticks' = ticks + 1
            /\ snap' = IF GetOpen THEN [snap EXCEPT !.overlap = TRUE] ELSE snap
       ELSE /\ pc' = [pc EXCEPT !["worker"] = "exited"]
            /\ call' = [call EXCEPT !["worker"] = NoCall]
            /\ UNCHANGED <<ticks, snap>>
    /\ UNCHANGED <<counters_, mutex_, outer, fault, idx,
                   local, shared, modified, histVars, prev, ticksAfterStop>>

\* std::this_thread::sleep_for(std::chrono::milliseconds(1))
WorkerSleep ==
    /\ pc["worker"] = "sleep"
    /\ pc' = [pc EXCEPT !["worker"] = "test"]
    /\ call' = [call EXCEPT !["worker"] = NoCall]
    /\ UNCHANGED <<counters_, mutex_, outer, fault, idx, local, shared,
                   modified, histVars, ticks, snap, prev, ticksAfterStop>>

Worker == WorkerTest \/ WorkerSleep \/ WorkerStoreStep

\* ------------------------------- a caller of CounterManager's public methods

Idle == pc["ui"] \in {"idle", "ret"}

\* The caller's vector lives until the call after the one that bound it
\* returns; then it goes out of scope.
HoldsLocal ==
    /\ pc["ui"] = "ret"
    /\ call["ui"].op = "get" \/ (call["ui"].op = "set" /\ call["ui"].bound)
Rebinds(c) == (c.op = "set" /\ c.bound) \/ ~HoldsLocal
Kept == IF HoldsLocal THEN local ELSE <<>>

\* The ui thread calls one of the public methods with arguments of its choice.
ClientCall(c, newLocal) ==
    /\ storeAlive
    /\ pc' = [pc EXCEPT !["ui"] = "lock"]
    /\ call' = [call EXCEPT !["ui"] = c]
    /\ prev' = IF c.op = "get" /\ pc["ui"] = "ret" /\ call["ui"].op = "set"
               THEN call["ui"] ELSE NoCall
    /\ local' = newLocal
    /\ modified' = IF Rebinds(c) THEN FALSE ELSE modified
    /\ shared' = IF Rebinds(c) THEN FALSE ELSE shared
    /\ window' = IF c.op = "get" THEN {lin} ELSE {}
    /\ snap' = IF c.op = "get"
               THEN [overlap |-> InTick("worker"), inc |-> 0, len |-> 0, ticks |-> 0]
               ELSE NoSnap
    /\ UNCHANGED <<counters_, mutex_, keepRunning, storeAlive, fault, idx,
                   lin, base, nTicks, ticks, ticksAfterStop>>

ClientAdd ==
    \E v \in AddValues :
        /\ Idle
        /\ Len(counters_) < MaxLen
        /\ ClientCall(Call("add", v, <<>>, FALSE), Kept)
        /\ UNCHANGED winVars

ClientDelete ==
    \E i \in DeleteIndexes :
        /\ Idle
        /\ ClientCall(Call("delete", i, <<>>, FALSE), Kept)
        /\ UNCHANGED winVars

ClientGet ==
    /\ Idle
    /\ ClientCall(Call("get", 0, <<>>, FALSE), Kept)
    /\ UNCHANGED winVars

\* The argument is a vector the caller keeps (bound) or a temporary.
ClientSet ==
    \E x \in SetArgs, b \in BOOLEAN :
        /\ Idle
        /\ ClientCall(Call("set", 0, x, b), IF b THEN x ELSE Kept)
        /\ UNCHANGED winVars

\* The caller writes to the vector it holds: it clears it.
ClientModifyLocal ==
    /\ HoldsLocal
    /\ ~modified
    /\ LocalView # <<>>
    /\ modified' = TRUE
    /\ IF shared
       THEN counters_' = <<>> /\ UNCHANGED local
       ELSE local' = <<>> /\ UNCHANGED counters_
    /\ UNCHANGED <<mutex_, outer, fault, pc, call, idx,
                   shared, histVars, ticks, snap, prev, ticksAfterStop>>

\* ----------------------------------------- CounterManager under any caller

\* A default-constructed CounterManager, the worker already running.
InitStore ==
    /\ counters_ = <<>>
    /\ mutex_ = "free"
    /\ keepRunning = TRUE
    /\ storeAlive = TRUE
    /\ fault = FALSE
    /\ pc = [t \in Threads |-> IF t = "worker" THEN "test" ELSE "idle"]
    /\ call = [t \in Threads |-> NoCall]
    /\ idx = [t \in Threads |-> 0]
    /\ local = <<>>
    /\ shared = FALSE
    /\ modified = FALSE
    /\ lin = <<>>
    /\ window = {}
    /\ base = <<>>
    /\ nTicks = 0
    /\ ticks = 0
    /\ snap = NoSnap
    /\ prev = NoCall
    /\ ticksAfterStop = 0
    /\ handler = "client"
    /\ tableRows = 0
    /\ selectedRow = -1
    /\ dbRows = <<>>
    /\ errorShown = FALSE
    /\ now = 0
    /\ timerValid = FALSE
    /\ timerStart = 0
    /\ previousSum = 0
    /\ rate = NoRate
    /\ tickKind = "none"
    /\ dbOpen = FALSE
    /\ inTx = FALSE
    /\ txRows = <<>>
    /\ saveIdx = 0
    /\ saveStage = "none"
    /\ saveOld = <<>>
    /\ saveNew = <<>>
    /\ saveFailed = FALSE
    /\ saves = 0
    /\ savedOk = NoSave

NextStore ==
    \/ ClientAdd
    \/ ClientDelete
    \/ ClientGet
    \/ ClientSet
    \/ ClientModifyLocal
    \/ UiStoreStep
    \/ Worker

SpecStore == InitStore /\ [][NextStore]_vars

\* ------------------------------------------------------------ MainWindow

\* query.bindValue(0, value): the int becomes a value of storage class
\* INTEGER.
BindValue(value) == [type |-> "INTEGER", val |-> value]

\* QVariant::toInt() of a column value: the integer of an INTEGER, 0 of a
\* value that is no number.
ToInt(cell) == IF cell.type = "INTEGER" THEN cell.val ELSE 0

\* Contents counters.db may have when the program starts: no row, or the
\* rows an earlier run saved.
DbContents == {<<>>, <<BindValue(2), BindValue(5)>>}

\* query.value(0).toInt() for every row of SELECT value FROM counters, in
\* the order of the rows.
LoadedCounters(rows) == [j \in 1 .. Len(rows) |-> ToInt(rows[j])]

\* The event loop is between two slots.
BetweenSlots == pc["ui"] = "idle" /\ handler = "none" /\ storeAlive

\* What a member function of MainWindow leaves alone outside its calls of
\* CounterManager, and what of it remains when the function returns.
storeVars == <<counters_, mutex_, fault, idx, shared, modified, histVars,
               ticks, snap, prev, ticksAfterStop>>
storeKept == <<counters_, mutex_, fault, idx, shared, modified, lin, base,
               nTicks, ticks, prev, ticksAfterStop>>

\* A member function returns to position p: its local vector is destroyed.
FunctionDone(p) ==
    /\ pc' = [pc EXCEPT !["ui"] = p]
    /\ call' = [call EXCEPT !["ui"] = NoCall]
    /\ local' = <<>>
    /\ window' = {}
    /\ snap' = NoSnap

\* A slot has run to its end.
SlotDone ==
    /\ FunctionDone("idle")
    /\ handler' = "none"

\* The worker while the constructor loads the counters: workerThread is
\* assigned its thread after loadCountersFromDatabase has returned.
\* (ThreadAtLoadRunning: the faulty variant that starts the thread first.)
ThreadAtLoadRunning == "test"
ThreadAtLoad == "unstarted"

\* Where the ui thread goes on after the message box of a failed open: the
\* load returns into the constructor.
\* (FailedOpenQuits: the faulty variant in which the program ends.)
FailedOpenQuits == "destroyed"
FailedOpenReturns == "loaded"

\* MainWindow::loadCountersFromDatabase, called by the constructor: open the
\* database, read the rows, pass them to setCounters.
LoadOpen ==
    /\ pc["ui"] = "ctor"
    /\ \E opened \in BOOLEAN :
          IF opened
          THEN /\ ClientCall(Call("set", 0, LoadedCounters(dbRows), TRUE),
                             LoadedCounters(dbRows))
               /\ dbOpen' = TRUE
               /\ UNCHANGED <<handler, tableRows, selectedRow, dbRows,
                              errorShown, rateVars, sqlKept>>
          ELSE /\ errorShown' = TRUE
               /\ pc' = [pc EXCEPT !["ui"] = FailedOpenReturns]
               /\ UNCHANGED <<handler, tableRows, selectedRow, dbRows,
                              rateVars, sqlVars, keepRunning, storeAlive,
                              call, local, storeVars>>

\* MainWindow::loadCountersFromDatabase after setCounters: the table gets
\* one row for each counter read.
LoadFinish ==
    /\ pc["ui"] = "ret" /\ handler = "ctor"
    /\ tableRows' = Len(LocalView)
    /\ dbOpen' = FALSE
    /\ FunctionDone("loaded")
    /\ UNCHANGED <<handler, selectedRow, dbRows, errorShown, rateVars,
                   sqlKept, keepRunning, storeAlive, storeKept>>

\* MainWindow::MainWindow after the load: the worker thread and the two
\* timers are started, and the event loop takes over.
CtorStart ==
    /\ pc["ui"] = "loaded"
    /\ pc' = [pc EXCEPT !["ui"] = "idle", !["worker"] = "test"]
    /\ handler' = "none"
    /\ UNCHANGED <<tableRows, selectedRow, dataVars, keepRunning,
                   storeAlive, call, local, storeVars>>

\* The user selects a row of the table.
SelectRow ==
    /\ BetweenSlots
    /\ \E r \in 0 .. (tableRows - 1) : selectedRow' = r
    /\ UNCHANGED <<handler, tableRows, dataVars, keepRunning,
                   storeAlive, pc, call, local, storeVars>>

\* MainWindow::onAddClicked up to the return of addCounter(0).
OnAddClicked ==
    /\ BetweenSlots
    /\ tableRows < MaxLen
    /\ ClientCall(Call("add", 0, <<>>, FALSE), <<>>)
    /\ handler' = "add"
    /\ UNCHANGED <<tableRows, selectedRow, dataVars>>

\* tableWidget->insertRow(row): the table has one row more.
\* (InsertRowNone: the faulty variant that inserts no row.)
InsertRowNone(rows) == rows
InsertRow(rows) == rows + 1

\* MainWindow::onAddClicked, the rest: a row is inserted at the end.
OnAddFinish ==
    /\ pc["ui"] = "ret" /\ handler = "add"
    /\ tableRows' = InsertRow(tableRows)
    /\ SlotDone
    /\ UNCHANGED <<selectedRow, dataVars, keepRunning, storeAlive,
                   storeKept>>

\* MainWindow::onDeleteClicked up to the return of deleteCounter(row);
\* without a selection the slot returns at once.
OnDeleteClicked ==
    /\ BetweenSlots
    /\ IF selectedRow = -1
       THEN UNCHANGED vars
       ELSE /\ ClientCall(Call("delete", selectedRow, <<>>, FALSE), <<>>)
            /\ handler' = "delete"
            /\ UNCHANGED <<tableRows, selectedRow, dataVars>>

\* MainWindow::onDeleteClicked, the rest: the row is removed and the row
\* that took its place, or the last row, is selected.
OnDeleteFinish ==
    /\ pc["ui"] = "ret" /\ handler = "delete"
    /\ tableRows' = IF selectedRow < tableRows THEN tableRows - 1 ELSE tableRows
    /\ selectedRow' = IF tableRows' > 0
                      THEN (IF selectedRow >= tableRows'
                            THEN tableRows' - 1 ELSE selectedRow)
                      ELSE -1
    /\ SlotDone
    /\ UNCHANGED <<dataVars, keepRunning, storeAlive, storeKept>>

\* MainWindow::updateTable (tableTimer) up to the return of getCounters.
UpdateTable ==
    /\ BetweenSlots
    /\ ClientCall(Call("get", 0, <<>>, FALSE), <<>>)
    /\ handler' = "updateTable"
    /\ UNCHANGED <<tableRows, selectedRow, dataVars>>

\* MainWindow::updateTable, the rest: the table gets one row per counter.
UpdateTableFinish ==
    /\ pc["ui"] = "ret" /\ handler = "updateTable"
    /\ tableRows' = Len(LocalView)
    /\ selectedRow' = IF selectedRow >= tableRows' THEN -1 ELSE selectedRow
    /\ SlotDone
    /\ UNCHANGED <<dataVars, keepRunning, storeAlive, storeKept>>

\* ----------------------------------------------------- the rate estimator

\* int + int of the machine: the sum when it is representable, else the
\* value two's complement arithmetic wraps to, with the overflow recorded.
IntAdd(acc, v) ==
    IF v > 0 /\ acc.val > INT_MAX - v
    THEN [val |-> INT_MIN + ((acc.val - INT_MAX) - 1 + v), ovf |-> TRUE]
    ELSE IF v < 0 /\ acc.val < INT_MIN - v
    THEN [val |-> INT_MAX + ((acc.val - INT_MIN) + v + 1), ovf |-> TRUE]
    ELSE [val |-> acc.val + v, ovf |-> acc.ovf]

\* std::accumulate(first, last, init) with an int init: a left fold in int.
RECURSIVE Accumulate(_, _)
Accumulate(s, acc) ==
    IF s = <<>> THEN acc ELSE Accumulate(Tail(s), IntAdd(acc, Head(s)))

\* double currentSum = std::accumulate(counters.begin(), counters.end(), 0).
CurrentSum(counters) == Accumulate(counters, [val |-> 0, ovf |-> FALSE])

\* elapsedTimer.elapsed(): whole milliseconds since the timer was started.
Elapsed == now - timerStart

\* (currentSum - previousSum) / timeDiff with timeDiff = elapsed / 1000.0:
\* the quotient num / (den / 1000) counts per second, kept as its two terms.
\* (FrequencyClamped: the faulty variant that reports no negative rate.)
FrequencyClamped(currentSum, prevSum, elapsed) ==
    [num |-> IF currentSum < prevSum THEN 0 ELSE currentSum - prevSum,
     den |-> elapsed]
Frequency(currentSum, prevSum, elapsed) ==
    [num |-> currentSum - prevSum, den |-> elapsed]

\* if (timeDiff <= 0) return;
\* (SkipsTickNever: the faulty variant without the guard.)
SkipsTickNever(elapsed) == FALSE
SkipsTick(elapsed) == elapsed <= 0

\* The clock advances by one millisecond.  The reads of the clock in one
\* slot (elapsed(), restart()) are taken to fall into the same millisecond,
\* so the clock is stepped between slots only.
ClockTick ==
    /\ BetweenSlots
    /\ now < MaxTime
    /\ now' = now + 1
    /\ UNCHANGED <<timerValid, timerStart, previousSum, rate, tickKind,
                   handler, tableRows, selectedRow, dbRows, errorShown,
                   sqlVars, keepRunning, storeAlive, pc, call, local,
                   storeVars>>

\* MainWindow::updateFrequency (freqTimer) up to the return of getCounters.
UpdateFrequency ==
    /\ BetweenSlots
    /\ ClientCall(Call("get", 0, <<>>, FALSE), <<>>)
    /\ handler' = "updateFrequency"
    /\ UNCHANGED <<tableRows, selectedRow, dbRows, errorShown, rateVars,
                   sqlVars>>

\* MainWindow::updateFrequency, the rest: the sum of the snapshot; the first
\* call starts the timer and records the sum; a later call returns when no
\* time has elapsed, and otherwise shows the frequency, records the sum and
\* restarts the timer.  An overflow of the int sum is undefined: the sum
\* wraps, or the program is stopped.
UpdateFrequencyFinish ==
    /\ pc["ui"] = "ret" /\ handler = "updateFrequency"
    /\ LET currentSum == CurrentSum(LocalView)
       IN  /\ \E trap \in BOOLEAN : fault' = (fault \/ (currentSum.ovf /\ trap))
           /\ IF ~timerValid
              THEN /\ timerValid' = TRUE
                   /\ timerStart' = now
                   /\ previousSum' = currentSum.val
                   /\ tickKind' = "baseline"
                   /\ UNCHANGED rate
              ELSE IF SkipsTick(Elapsed)
              THEN /\ tickKind' = "skipped"
                   /\ UNCHANGED <<timerValid, timerStart, previousSum, rate>>
              ELSE /\ rate' = Frequency(currentSum.val, previousSum, Elapsed)
                   /\ previousSum' = currentSum.val
                   /\ timerStart' = now
                   /\ tickKind' = "emitted"
                   /\ UNCHANGED timerValid
    /\ SlotDone
    /\ UNCHANGED <<now, tableRows, selectedRow, dbRows, errorShown, sqlVars,
                   keepRunning, storeAlive, counters_, mutex_, idx, shared,
                   modified, lin, base, nTicks, ticks, prev, ticksAfterStop>>

\* ------------------------------------------------------------- the save

\* The rows of table counters a statement of the connection works on: those
\* of the active transaction, else the stored ones.
WorkingRows == IF inTx THEN txRows ELSE dbRows

\* query.exec() of a statement that leaves table counters with rows new: a
\* statement that fails changes nothing, and its result is not looked at;
\* outside a transaction the change is stored at once.
Exec(ok, new) ==
    IF ok
    THEN /\ IF inTx
            THEN txRows' = new /\ UNCHANGED dbRows
            ELSE dbRows' = new /\ UNCHANGED txRows
         /\ UNCHANGED saveFailed
    ELSE /\ saveFailed' = TRUE
         /\ UNCHANGED <<txRows, dbRows>>

\* INSERT INTO counters (value) VALUES (?): the new row comes last.
\* (InsertedFirst: the faulty variant that puts it first.)
InsertedFirst(rows, cell) == <<cell>> \o rows
Inserted(rows, cell) == Append(rows, cell)

\* The rows that hold the vector x, as a save stores them.
StoredRows(x) == [j \in 1 .. Len(x) |-> BindValue(x[j])]

\* MainWindow::onSaveClicked (the save button): QSqlDatabase::database()
\* opens the connection when it is closed; without an open connection an
\* error is shown and the slot returns.
OnSaveClicked ==
    /\ BetweenSlots
    /\ \E opened \in BOOLEAN :
          /\ dbOpen => opened
          /\ opened => saves < MaxSaves
          /\ dbOpen' = opened
          /\ IF opened
             THEN /\ pc' = [pc EXCEPT !["ui"] = "sqlBegin"]
                  /\ saves' = saves + 1
                  /\ handler' = "save"
                  /\ saveStage' = "started"
                  /\ saveOld' = dbRows
                  /\ saveNew' = <<>>
                  /\ saveFailed' = FALSE
                  /\ savedOk' = NoSave
                  /\ saveIdx' = 0
                  /\ UNCHANGED errorShown
             ELSE /\ errorShown' = TRUE
                  /\ UNCHANGED <<pc, handler, saveStage, saveOld, saveNew,
                                 saveFailed, saves, savedOk, saveIdx>>
    /\ UNCHANGED <<tableRows, selectedRow, dbRows, rateVars, inTx, txRows,
                   keepRunning, storeAlive, call, local, storeVars>>

\* query.exec("BEGIN TRANSACTION"): it fails inside a transaction.
SaveBegin ==
    /\ pc["ui"] = "sqlBegin"
    /\ \E ok \in BOOLEAN :
          /\ inTx => ~ok
          /\ IF ok
             THEN inTx' = TRUE /\ txRows' = dbRows /\ UNCHANGED saveFailed
             ELSE saveFailed' = TRUE /\ UNCHANGED <<inTx, txRows>>
    /\ pc' = [pc EXCEPT !["ui"] = "sqlDelete"]
    /\ UNCHANGED <<handler, tableRows, selectedRow, dbRows, errorShown,
                   rateVars, dbOpen, saveIdx, saveStage, saveOld, saveNew,
                   saves, savedOk, keepRunning, storeAlive, call, local,
                   storeVars>>

\* query.exec("DELETE FROM counters"), then the call of getCounters.
SaveDelete ==
    /\ pc["ui"] = "sqlDelete"
    /\ \E ok \in BOOLEAN : Exec(ok, <<>>)
    /\ ClientCall(Call("get", 0, <<>>, FALSE), <<>>)
    /\ UNCHANGED <<handler, tableRows, selectedRow, errorShown, rateVars,
                   dbOpen, inTx, saveIdx, saveStage, saveOld, saveNew,
                   saves, savedOk>>

\* getCounters has returned: query.prepare("INSERT ...").
SavePrepare ==
    /\ pc["ui"] = "ret" /\ handler = "save"
    /\ pc' = [pc EXCEPT !["ui"] = "sqlInsert"]
    /\ saveNew' = LocalView
    /\ saveStage' = "sampled"
    /\ UNCHANGED <<handler, tableRows, selectedRow, dbRows, errorShown,
                   rateVars, dbOpen, inTx, txRows, saveIdx, saveOld,
                   saveFailed, saves, savedOk, keepRunning, storeAlive, call,
                   local,
                   storeVars>>

\* One pass of the loop: query.bindValue(0, value); query.exec().
SaveInsert ==
    /\ pc["ui"] = "sqlInsert"
    /\ saveIdx < Len(LocalView)
    /\ \E ok \in BOOLEAN :
          Exec(ok, Inserted(WorkingRows, BindValue(LocalView[saveIdx + 1])))
    /\ saveIdx' = saveIdx + 1
    /\ UNCHANGED <<handler, tableRows, selectedRow, errorShown, rateVars,
                   dbOpen, inTx, saveStage, saveOld, saveNew, saves, savedOk,
                   keepRunning, storeAlive, pc, call, local, storeVars>>

\* query.exec("COMMIT") after the loop: the rows of the transaction are
\* stored; it fails when no transaction is active, and a transaction whose
\* commit fails stays active.  The slot returns.
SaveCommit ==
    /\ pc["ui"] = "sqlInsert"
    /\ saveIdx = Len(LocalView)
    /\ \E ok \in BOOLEAN :
          /\ ~inTx => ~ok
          /\ IF ok
             THEN /\ dbRows' = txRows
                  /\ inTx' = FALSE
                  /\ txRows' = <<>>
                  /\ UNCHANGED saveFailed
             ELSE /\ saveFailed' = TRUE
                  /\ UNCHANGED <<dbRows, inTx, txRows>>
    /\ savedOk' = IF saveFailed' THEN NoSave
                  ELSE [done |-> TRUE, x |-> LocalView]
    /\ saveStage' = "ended"
    /\ saveIdx' = 0
    /\ SlotDone
    /\ UNCHANGED <<tableRows, selectedRow, errorShown, rateVars, dbOpen,
                   saveOld, saveNew, saves, keepRunning, storeAlive,
                   storeKept>>

\* MainWindow::~MainWindow: keepRunning.store(false).
DtorBegin ==
    /\ BetweenSlots
    /\ keepRunning' = FALSE
    /\ pc' = [pc EXCEPT !["ui"] = "join"]
    /\ handler' = "dtor"
    /\ UNCHANGED <<tableRows, selectedRow, dataVars, storeAlive,
                   call, local, storeVars>>

\* workerThread.join() returns when the worker's function has returned.
\* (JoinReturnsAtOnce: the faulty variant that does not wait.)
JoinReturnsAtOnce == TRUE
JoinReturns == pc["worker"] = "exited"

\* MainWindow::~MainWindow: the join, then the database is closed.
DtorJoin ==
    /\ pc["ui"] = "join"
    /\ JoinReturns
    /\ pc' = [pc EXCEPT !["ui"] = "members"]
    /\ dbOpen' = FALSE
    /\ inTx' = FALSE
    /\ txRows' = <<>>
    /\ UNCHANGED <<handler, tableRows, selectedRow, dbRows, errorShown,
                   rateVars, saveIdx, saveStage, saveOld, saveNew,
                   saveFailed, saves, savedOk, keepRunning, storeAlive,
                   call, local, storeVars>>

\* After the destructor's body the members are destroyed, counterManager
\* among them.
DtorMembers ==
    /\ pc["ui"] = "members"
    /\ storeAlive' = FALSE
    /\ pc' = [pc EXCEPT !["ui"] = "destroyed"]
    /\ UNCHANGED <<winVars, keepRunning, call, local, storeVars>>

\* The program starts with counters.db holding one of contents: main
\* constructs the MainWindow.
Start(contents) ==
    /\ counters_ = <<>>
    /\ mutex_ = "free"
    /\ keepRunning = TRUE
    /\ storeAlive = TRUE
    /\ fault = FALSE
    /\ pc = [t \in Threads |-> IF t = "worker" THEN ThreadAtLoad ELSE "ctor"]
    /\ call = [t \in Threads |-> NoCall]
    /\ idx = [t \in Threads |-> 0]
    /\ local = <<>>
    /\ shared = FALSE
    /\ modified = FALSE
    /\ lin = <<>>
    /\ window = {}
    /\ base = <<>>
    /\ nTicks = 0
    /\ ticks = 0
    /\ snap = NoSnap
    /\ prev = NoCall
    /\ ticksAfterStop = 0
    /\ handler = "ctor"
    /\ tableRows = 0
    /\ selectedRow = -1
    /\ dbRows \in contents
    /\ errorShown = FALSE
    /\ now = 0
    /\ timerValid = FALSE
    /\ timerStart = 0
    /\ previousSum = 0
    /\ rate = NoRate
    /\ tickKind = "none"
    /\ dbOpen = FALSE
    /\ inTx = FALSE
    /\ txRows = <<>>
    /\ saveIdx = 0
    /\ saveStage = "none"
    /\ saveOld = <<>>
    /\ saveNew = <<>>
    /\ saveFailed = FALSE
    /\ saves = 0
    /\ savedOk = NoSave

Init == Start(DbContents)

Next ==
    \/ LoadOpen
    \/ LoadFinish
    \/ CtorStart
    \/ SelectRow
    \/ OnAddClicked
    \/ OnAddFinish
    \/ OnDeleteClicked
    \/ OnDeleteFinish
    \/ UpdateTable
    \/ UpdateTableFinish
    \/ DtorBegin
    \/ DtorJoin
    \/ DtorMembers
    \/ UiStoreStep
    \/ Worker

Spec == Init /\ [][Next]_vars

\* The scheduler runs the worker thread whenever it can take a step.
FairSpec == Spec /\ WF_vars(Worker)

\* The scheduler runs both threads, and the ui thread takes the step of a
\* CounterManager method that it can take again and again; so when it waits
\* for the mutex it gets it: in every pass of its loop the worker unlocks
\* the mutex and then sleeps for a millisecond, during which the waiting
\* thread is woken and finds the mutex free.
LiveSpec == Spec /\ WF_vars(Worker) /\ SF_vars(UiStoreStep)

\* The program with the rate estimator and the clock: the worker raises the
\* sum of the counters loaded, the delete button lowers it.
NextRate ==
    \/ LoadOpen
    \/ LoadFinish
    \/ CtorStart
    \/ SelectRow
    \/ OnDeleteClicked
    \/ OnDeleteFinish
    \/ UpdateFrequency
    \/ UpdateFrequencyFinish
    \/ ClockTick
    \/ UiCopyStep
    \/ DeleteBody("ui")
    \/ Worker

SpecRate == Init /\ [][NextRate]_vars

\* Contents of counters.db whose values a long run has saved: the sum of
\* the first exceeds INT_MAX, the sum of the second does not.
SumDbContents ==
    {<<BindValue(INT_MAX - 10), BindValue(20)>>, <<BindValue(1), BindValue(2)>>}

InitSum == Start(SumDbContents)

\* The program with the rate estimator and the clock, started on such
\* contents.
NextSum ==
    \/ LoadOpen
    \/ LoadFinish
    \/ CtorStart
    \/ UpdateFrequency
    \/ UpdateFrequencyFinish
    \/ ClockTick
    \/ UiCopyStep
    \/ Worker

SpecSum == InitSum /\ [][NextSum]_vars

\* main has returned and the program is started again: a new MainWindow is
\* constructed, counters.db is as the last run left it.
Relaunch ==
    /\ pc["ui"] = "destroyed"
    /\ counters_' = <<>>
    /\ mutex_' = "free"
    /\ keepRunning' = TRUE
    /\ storeAlive' = TRUE
    /\ pc' = [t \in Threads |-> IF t = "worker" THEN ThreadAtLoad ELSE "ctor"]
    /\ call' = [t \in Threads |-> NoCall]
    /\ idx' = [t \in Threads |-> 0]
    /\ local' = <<>>
    /\ shared' = FALSE
    /\ modified' = FALSE
    /\ lin' = <<>>
    /\ window' = {}
    /\ base' = <<>>
    /\ nTicks' = 0
    /\ snap' = NoSnap
    /\ prev' = NoCall
    /\ ticksAfterStop' = 0
    /\ handler' = "ctor"
    /\ tableRows' = 0
    /\ selectedRow' = -1
    /\ errorShown' = FALSE
    /\ saveStage' = "none"
    /\ saveOld' = <<>>
    /\ saveNew' = <<>>
    /\ saveFailed' = FALSE
    /\ UNCHANGED <<fault, ticks, dbRows, rateVars, dbOpen, inTx, txRows,
                   saveIdx, saves, savedOk>>

\* The program with the save button, run after run: the worker changes the
\* counters loaded, the save button stores them, the next run loads them.
NextSave ==
    \/ LoadOpen
    \/ LoadFinish
    \/ CtorStart
    \/ OnSaveClicked
    \/ SaveBegin
    \/ SaveDelete
    \/ SavePrepare
    \/ SaveInsert
    \/ SaveCommit
    \/ DtorBegin
    \/ DtorJoin
    \/ DtorMembers
    \/ Relaunch
    \/ UiCopyStep
    \/ Worker

SpecSave == Init /\ [][NextSave]_vars

\* =============================================== properties of SpecStore

UiReturned(op) == pc["ui"] = "ret" /\ call["ui"].op = op

\* C1: the store is linearizable: the value a getCounters call returns is a
\* value the collection of the atomic store had at some instant between the
\* call and its return, so it reflects every mutation that completed before
\* the call, in one order, and possibly some that overlapped it; and while
\* no thread is inside a method the collection is the one the atomic store
\* has after the calls made so far.
C1_Linearizable ==
    /\ (UiReturned("get") /\ ~modified) => LocalView \in window
    /\ (\A t \in Threads : pc[t] # "body") => counters_ = lin

\* A snapshot returned during whose call at least one tick took effect.
C1_Witness ==
    /\ UiReturned("get") /\ ~modified
    /\ Cardinality(window) >= 2
    /\ Len(local) >= 2

\* C2: at most one thread is inside the body of a CounterManager method.
C2_MutualExclusion ==
    \A t1, t2 \in Threads :
        (pc[t1] = "body" /\ pc[t2] = "body") => t1 = t2

\* The ui thread waits for the mutex while the worker is inside the loop.
C2_Witness ==
    /\ pc["ui"] = "lock"
    /\ pc["worker"] = "body" /\ idx["worker"] >= 1
    /\ mutex_ = "worker"

\* C3: a snapshot whose call overlaps a tick is copied when the tick has
\* incremented none of the elements or all of them, never some of them.
C3_NoTornSnapshot ==
    (UiReturned("get") /\ snap.overlap) =>
        (snap.inc = 0 \/ snap.inc = snap.len)

\* A snapshot of two or more elements whose call overlapped a tick.
C3_Witness ==
    /\ UiReturned("get") /\ snap.overlap
    /\ snap.len >= 2
    /\ ~modified /\ local # base

\* C4: after N ticks with no other mutation in between every element is
\* exactly N greater, the length and the order are as before and the sum
\* has grown by length * N.
C4_TicksAddExactly ==
    pc["worker"] # "body" =>
        /\ Len(counters_) = Len(base)
        /\ \A j \in 1 .. Len(base) : counters_[j] = base[j] + nTicks
        /\ SeqSum(counters_) = SeqSum(base) + Len(base) * nTicks

\* Three counters added as 0, then every tick the bound allows.
C4_Witness ==
    /\ base = <<0, 0, 0>>
    /\ nTicks = MaxTicks
    /\ counters_ = <<MaxTicks, MaxTicks, MaxTicks>>
    /\ pc["worker"] = "sleep"

UiBodyStep(op) ==
    pc["ui"] = "body" /\ call["ui"].op = op /\ pc'["ui"] = "ret"

\* C5: deleteCounter with an index below 0 or not below the length leaves
\* the collection as it was and raises no error.
C5_DeleteOutOfRange ==
    [][(/\ UiBodyStep("delete")
        /\ (call["ui"].n < 0 \/ call["ui"].n >= Len(counters_)))
       => (counters_' = counters_ /\ fault' = fault /\ ~fault')]_vars

\* An out-of-range deleteCounter has returned, the collection not empty.
C5_Witness ==
    /\ UiReturned("delete") /\ call["ui"].out = "ignored"
    /\ counters_ # <<>>

\* C6: deleteCounter with 0 <= index < length removes exactly that element:
\* the elements before it stay, the elements after it move one place left.
C6_DeleteInRange ==
    [][(/\ UiBodyStep("delete")
        /\ call["ui"].n >= 0 /\ call["ui"].n < Len(counters_))
       => (/\ Len(counters_') = Len(counters_) - 1
           /\ \A j \in 1 .. call["ui"].n : counters_'[j] = counters_[j]
           /\ \A j \in (call["ui"].n + 1) .. (Len(counters_) - 1) :
                  counters_'[j] = counters_[j + 1]
           /\ ~fault')]_vars

\* An in-range deleteCounter has returned and left two different elements.
C6_Witness ==
    /\ UiReturned("delete") /\ call["ui"].out = "erased"
    /\ Len(counters_) = 2
    /\ counters_[1] # counters_[2]

\* C7 as stated: getCounters called right after setCounters(X) returns X,
\* also while the worker runs.
C7_SetThenGetReturnsX ==
    (UiReturned("get") /\ prev.op = "set" /\ ~modified) =>
        LocalView = prev.vec

\* C7 as amended: getCounters called right after setCounters(X) returns X
\* with every element increased by the number of ticks that took effect
\* between the two calls; it returns X itself when no tick did.
C7_SetThenGetReturnsShiftedX ==
    (UiReturned("get") /\ prev.op = "set" /\ ~modified) =>
        /\ LocalView = SeqShift(prev.vec, snap.ticks)
        /\ snap.ticks = 0 => LocalView = prev.vec

\* setCounters(<<3, 1, 2>>) then getCounters with no tick in between.
C7_Witness ==
    /\ UiReturned("get") /\ prev.op = "set" /\ ~modified
    /\ prev.vec = <<3, 1, 2>>
    /\ snap.ticks = 0
    /\ local = <<3, 1, 2>>
    /\ ticks >= 1

\* The steps in which the ui thread itself gives its vector a new value.
UiRebindsLocal ==
    \/ UiBodyStep("get")
    \/ ~modified /\ modified'
    \/ /\ pc["ui"] # "lock" /\ pc'["ui"] = "lock"
       /\ ~HoldsLocal \/ (call'["ui"].op = "set" /\ call'["ui"].bound)

\* C8: the vector getCounters returned is a copy: no later call of the store,
\* by either thread, changes it, and a write to it (or to a vector that was
\* passed to setCounters) leaves the store's collection as it was.
C8_IndependentCopy ==
    [][/\ ~UiRebindsLocal => LocalView' = LocalView
       /\ (~modified /\ modified') => counters_' = counters_]_vars

\* The ui thread still holds a snapshot after a setCounters call of its own
\* replaced the collection.
C8_Witness ==
    /\ UiReturned("set") /\ ~call["ui"].bound
    /\ local # <<>>
    /\ local # counters_
    /\ nTicks >= 1

\* ================================================== properties of Spec

\* C9: once the destructor has cleared keepRunning the worker begins to
\* execute at most one more incrementAll, and under fair scheduling its
\* function returns.
C9_StopsAfterFlagCleared ==
    /\ [](ticksAfterStop <= 1)
    /\ (~keepRunning) ~> (pc["worker"] = "exited")

\* The worker has exited after one incrementAll that began after the clear.
C9_Witness ==
    /\ ~keepRunning
    /\ pc["worker"] = "exited"
    /\ ticksAfterStop = 1

\* C10: counterManager is destroyed only after the worker has exited: the
\* destructor's join has returned before the members are destroyed, and no
\* incrementAll is in progress from then on.
C10_StoreOutlivesWorker ==
    (pc["ui"] \in {"members", "destroyed"} \/ ~storeAlive) =>
        (pc["worker"] = "exited" /\ call["worker"].op # "inc")

\* The store has been destroyed after the worker made ticks and exited.
C10_Witness ==
    /\ ~storeAlive
    /\ pc["worker"] = "exited"
    /\ ticks >= 1


\* ================================================ properties of SpecRate

\* A step in which updateFrequency runs from the return of getCounters to
\* its end.
FrequencyStep ==
    pc["ui"] = "ret" /\ handler = "updateFrequency" /\ handler' = "none"

\* C11: the first updateFrequency records the sampled sum and the time and
\* shows no frequency; every later one that samples the sum S1 at a time t1
\* after the recorded time t0 shows (S1 - S0) / (t1 - t0), negative when the
\* sum has fallen, and records S1 and t1 as the previous sample.
C11_RateFromSamples ==
    [][FrequencyStep =>
         LET S1 == CurrentSum(LocalView).val
         IN  /\ ~timerValid =>
                  /\ tickKind' = "baseline" /\ rate' = rate
                  /\ timerValid' /\ previousSum' = S1 /\ timerStart' = now
             /\ (timerValid /\ now > timerStart) =>
                  /\ tickKind' = "emitted"
                  /\ rate' = [num |-> S1 - previousSum,
                              den |-> now - timerStart]
                  /\ previousSum' = S1 /\ timerStart' = now]_vars

\* A negative frequency was shown.
C11_Witness ==
    /\ tickKind = "emitted"
    /\ rate.num < 0 /\ rate.den > 0

\* C12: an updateFrequency that finds the timer started and no time elapsed
\* shows no frequency and leaves the recorded sum and time as they are, so
\* the updateFrequency after it, made when time has elapsed, shows the
\* frequency against the sample recorded before the skipped one.
C12_SkipKeepsSample ==
    [][FrequencyStep =>
         /\ (timerValid /\ now - timerStart <= 0) =>
              /\ tickKind' = "skipped" /\ rate' = rate
              /\ timerValid' /\ previousSum' = previousSum
              /\ timerStart' = timerStart
         /\ (tickKind = "skipped" /\ now > timerStart) =>
              rate' = [num |-> CurrentSum(LocalView).val - previousSum,
                       den |-> now - timerStart]]_vars

\* An updateFrequency was skipped, the clock has advanced since, and the
\* counters no longer sum to the recorded sample.
C12_Witness ==
    /\ tickKind = "skipped"
    /\ now > timerStart
    /\ BetweenSlots
    /\ SeqSum(counters_) # previousSum


\* ================================================ properties of SpecSave

\* C13: a save is all or nothing: whatever statement of onSaveClicked fails,
\* and wherever the save is cut short, counters.db holds the rows it held
\* before the save or the rows of the vector saved, never none, a part or a
\* mixture; and after a save one of whose statements failed it holds the
\* rows it held before.
C13_SaveAllOrNothing ==
    /\ saveStage = "started" => dbRows = saveOld
    /\ saveStage \in {"sampled", "ended"} =>
          dbRows \in {saveOld, StoredRows(saveNew)}
    /\ (saveStage = "ended" /\ saveFailed) => dbRows = saveOld

\* C14: after an onSaveClicked all of whose statements succeeded and which
\* stored the vector X, the next loadCountersFromDatabase passes exactly X
\* to setCounters: the same length, values and order, whatever was stored
\* before the save.
C14_SaveThenLoad ==
    (pc["ui"] = "ret" /\ handler = "ctor" /\ savedOk.done) =>
        /\ counters_ = savedOk.x
        /\ LocalView = savedOk.x

\* A run has loaded two counters that the run before it had loaded with
\* other values, incremented and saved.
C14_Witness ==
    /\ pc["ui"] = "ret" /\ handler = "ctor" /\ savedOk.done
    /\ Len(savedOk.x) = 2
    /\ savedOk.x[1] > 2 /\ savedOk.x[1] < savedOk.x[2]

\* The ui thread is about to execute a statement on the database for
\* loadCountersFromDatabase or onSaveClicked.
SqlNext ==
    \/ pc["ui"] \in {"ctor", "sqlBegin", "sqlDelete", "sqlInsert"}
    \/ pc["ui"] = "ret" /\ handler \in {"ctor", "save"}

\* C17: while a database statement of the load or of the save is executed
\* (open, create, select, delete, insert, commit, close), the ui thread,
\* which executes it, does not hold the mutex of the store.
C17_NoLockDuringSql == SqlNext => mutex_ # "ui"

\* The save is between two INSERT statements while the worker holds the
\* mutex inside incrementAll.
C17_Witness ==
    /\ pc["ui"] = "sqlInsert" /\ saveIdx = 1
    /\ mutex_ = "worker" /\ pc["worker"] = "body"


\* ==================================================== properties of Spec

\* The state in which loadCountersFromDatabase leaves the window and the
\* store when it has read no row.
LoadedEmpty ==
    /\ counters_ = <<>> /\ lin = <<>> /\ mutex_ = "free" /\ ~fault
    /\ tableRows = 0 /\ selectedRow = -1
    /\ local = <<>> /\ call["ui"] = NoCall
    /\ keepRunning /\ storeAlive /\ ~dbOpen
    /\ pc["worker"] = "unstarted"

\* C15: when the database cannot be opened at startup, an error is shown,
\* the store keeps its initial empty collection and the program goes on:
\* the load returns in the state in which a load of no rows returns, from
\* which the constructor starts the worker, so that every later call of the
\* store acts as after such a load.
C15_OpenFailureKeepsRunning ==
    /\ (pc["ui"] = "loaded" /\ dbRows # <<>> /\ counters_ = <<>>) => errorShown
    /\ (pc["ui"] = "loaded" /\ (errorShown \/ dbRows = <<>>)) =>
          LoadedEmpty /\ ENABLED CtorStart
    /\ (errorShown /\ pc["ui"] \notin {"ctor", "loaded"}) =>
          pc["worker"] # "unstarted"

\* After a failed open with rows in the database, two counters were added
\* and incremented.
C15_Witness ==
    /\ errorShown /\ dbRows # <<>>
    /\ BetweenSlots
    /\ Len(counters_) = 2 /\ counters_[1] >= 1 /\ counters_ = lin

\* C19: between two slots the table has as many rows as the store has
\* counters, whatever the load, the add and delete buttons, the table
\* refresh and the worker have done; so every deleteCounter(row) of
\* onDeleteClicked has its row in range and erases the counter of the
\* selected row.
C19_RowsMatchStore ==
    /\ BetweenSlots => tableRows = Len(counters_)
    /\ (handler = "delete" /\ pc["ui"] \in {"lock", "body"}) =>
          /\ call["ui"].n = selectedRow
          /\ InRange(call["ui"].n, Len(counters_))
    /\ (handler = "delete" /\ pc["ui"] = "ret") => call["ui"].out = "erased"

\* onDeleteClicked has erased the second of three counters.
C19_Witness ==
    /\ handler = "delete" /\ pc["ui"] = "ret"
    /\ call["ui"].out = "erased"
    /\ selectedRow = 1 /\ tableRows = 3 /\ Len(counters_) = 2

\* C20: setCounters is called by the load of the constructor only, which
\* returns before the worker thread exists: no setCounters is executed once
\* the worker has called incrementAll, so no replace discards increments.
C20_NoSetAfterStart ==
    (call["ui"].op = "set" /\ pc["ui"] \in {"lock", "body", "ret"}) =>
        /\ handler = "ctor"
        /\ pc["worker"] = "unstarted"
        /\ ticks = 0 /\ nTicks = 0

\* The load's setCounters has installed the two stored counters.
C20_Witness ==
    /\ call["ui"].op = "set" /\ pc["ui"] = "ret"
    /\ Len(counters_) = 2 /\ pc["worker"] = "unstarted"


\* ================================================ properties of LiveSpec

\* C16: every call of getCounters returns: however its steps interleave
\* with the worker's calls of incrementAll, the caller does not wait for the
\* mutex forever.
C16_SnapshotReturns ==
    (call["ui"].op = "get" /\ pc["ui"] = "lock")
        ~> (call["ui"].op = "get" /\ pc["ui"] = "ret")

\* A getCounters call made while the worker was inside incrementAll has
\* returned.
C16_Witness ==
    /\ UiReturned("get")
    /\ snap.overlap


\* ================================================= properties of SpecSum

\* C18: the sum updateFrequency takes of the snapshot is the arithmetic sum
\* of its elements, whatever ints they are: adding them up in an int never
\* overflows.
C18_SumExact ==
    (pc["ui"] = "ret" /\ handler = "updateFrequency") =>
        ~CurrentSum(LocalView).ovf

====
